---- MODULE Spec2Model ----
(***************************************************************************)
(* Model of the chat memory store (memory.py) of the role bot, of the      *)
(* text-request handler that drives it (main.py) and of split_message.     *)
(*                                                                         *)
(* A message text is opaque to the store, so a text is modelled as a pair  *)
(* <<origin, ordinal>>: <<"u", k>> is the k-th user text, <<"a", k>> the   *)
(* reply the API produced for the request that carried <<"u", k>>.         *)
(***************************************************************************)
EXTENDS Integers, Sequences, FiniteSets, TLC

\* ------------------------------------------------------------------------
\* Program constants (config.py)
\* ------------------------------------------------------------------------
MAX_USER_MESSAGES == 10

MAX_ASSISTANT_MESSAGES == 10

\* main.py
TELEGRAM_MESSAGE_LIMIT == 4096

\* ------------------------------------------------------------------------
\* Bounds of the model
\* ------------------------------------------------------------------------
\* appends per window and chat since the last reset_chat, window runs
MaxAppends == 11

\* appends per window and chat since the last reset_chat, store runs
MaxStoreAppends == 1

\* largest value a token counter is driven to, store runs
MaxStoreTokens == 1

\* largest value a token counter is driven to, ledger runs
MaxTokens == 3

\* text requests per chat
MaxTurns == 12

\* text requests per chat, runs of both chats with failures and empty replies
MaxConcurrentTurns == 2

\* requests per chat that end without an assistant message, between two resets
MaxLost == 2

\* longest text given to split_message
MaxTextLen == 10

\* largest max_length given to split_message
MaxSplitLength == 5

\* most entries of a prompts.json document
MaxPrompts == 2

\* the deltas an add_tokens call carries
TokenDeltas == {0, 1, 2}

ChatIds == {1, 2}

ModeKeys == {"developer"}

SystemPrompts == {"S", "T"}

\* Python's None
None == "None"

VARIABLES
    cache,      \* memory.py _memory_cache: key -> chat state
    file,       \* the parsed content of memory.json ({} when it is missing)
    ret,        \* the store call that ran last and what it returned: [op, chat, value]
    userHist,   \* per chat: the texts given to append_user_message since the last reset_chat
    asstHist,   \* per chat: the texts given to append_assistant_message since the last reset_chat
    sumIn,      \* per chat: the sum of the input deltas given to add_tokens since the last reset_chat_stats
    sumOut,     \* per chat: the sum of the output deltas given to add_tokens since the last reset_chat_stats
    prompts_cache,  \* memory.py _prompts_cache: <<>> for None, or <<catalog>>
    prompts_file,   \* the parsed content of prompts.json ({} when it is missing)
    last_read,  \* what get_prompts_data read since the start or the last reload_prompts, and how often
    pc,         \* per chat: where its _handle_openai_request stands: idle, awaiting, stopping
    req,        \* per chat: the request in flight: its text, its payload, the reply content
    turn,       \* per chat: the number of text requests received
    lost,       \* per chat: the ordinals of the requests since the last reset_chat that got no assistant message
    stale,      \* per chat: since the last reset_chat a reply was appended whose request that reset had cleared
    split_text, \* split_message: its argument text, a sequence of characters
    split_max,  \* split_message: its argument max_length
    rest,       \* split_message: the local rest
    chunks,     \* split_message: the local chunks
    spc         \* split_message: start, loop or done

histVars == <<userHist, asstHist, lost, stale>>

ghostVars == <<userHist, asstHist, lost, stale, sumIn, sumOut>>

handlerVars == <<prompts_cache, pc, req, turn>>

splitVars == <<split_text, split_max, rest, chunks, spc>>

promptVars == <<prompts_file, last_read>>

vars == <<cache, file, ret, userHist, asstHist, sumIn, sumOut, prompts_cache, pc, req,
          turn, lost, stale, split_text, split_max, rest, chunks, spc, prompts_file,
          last_read>>

\* ------------------------------------------------------------------------
\* Helpers
\* ------------------------------------------------------------------------
Min(a, b) == IF a <= b THEN a ELSE b

Max(a, b) == IF a >= b THEN a ELSE b

\* the empty JSON object
EmptyDoc == [k \in {} |-> None]

\* a mutation of the slice that keeps the oldest n entries
SliceFirst(s, n) == SubSeq(s, 1, Min(n, Len(s)))

\* Python's s[-n:] for n >= 1: the last n entries of s, all of s when it is shorter
SliceLast(s, n) == SubSeq(s, Max(1, Len(s) - n + 1), Len(s))

\* memory.py _chat_key: str(chat_id)
_chat_key(chat_id) == ToString(chat_id)

\* the entry get_chat_state creates for a key it does not find
DefaultState ==
    [mode |-> None, user_messages |-> <<>>, assistant_messages |-> <<>>,
     input_tokens |-> 0, output_tokens |-> 0]

\* memory.py _get_memory_data: the cache, (re)loaded from the file while it is empty
_get_memory_data == IF cache = EmptyDoc THEN file ELSE cache

\* a mutation of the lookup that replaces the entry found by a default one
EnsureFresh(data, key) == [k \in DOMAIN data \cup {key} |-> IF k = key THEN DefaultState ELSE data[k]]

\* a mutation of the lookup that forgets the entries of the other chats
EnsureAlone(data, key) ==
    [k \in {key} |-> IF k \in DOMAIN data THEN data[k] ELSE DefaultState]

\* the store after get_chat_state looked key up: a missing entry is created
Ensure(data, key) ==
    [k \in DOMAIN data \cup {key} |-> IF k \in DOMAIN data THEN data[k] ELSE DefaultState]

\* ------------------------------------------------------------------------
\* memory.py: the store operations, as functions of the loaded document
\* ------------------------------------------------------------------------
\* state["mode"] = mode_key
WithMode(data, key, mode_key) == [Ensure(data, key) EXCEPT ![key].mode = mode_key]

\* a mutation of the user append that truncates from the wrong end
WithUserMessageOldest(data, key, text) ==
    [Ensure(data, key) EXCEPT
        ![key].user_messages = SliceFirst(Append(@, text), MAX_USER_MESSAGES)]

\* state["user_messages"].append(text); state["user_messages"] = state["user_messages"][-MAX:]
WithUserMessage(data, key, text) ==
    [Ensure(data, key) EXCEPT
        ![key].user_messages = SliceLast(Append(@, text), MAX_USER_MESSAGES)]

\* a mutation of the assistant append that never truncates
WithAssistantMessageUntrimmed(data, key, text) ==
    [Ensure(data, key) EXCEPT ![key].assistant_messages = Append(@, text)]

\* state["assistant_messages"].append(text); ... = state["assistant_messages"][-MAX:]
WithAssistantMessage(data, key, text) ==
    [Ensure(data, key) EXCEPT
        ![key].assistant_messages = SliceLast(Append(@, text), MAX_ASSISTANT_MESSAGES)]

\* a mutation of reset_chat that clears the token counters with the windows
WithoutHistoryAndStats(data, key) ==
    [data EXCEPT ![key].user_messages = <<>>, ![key].assistant_messages = <<>>,
                 ![key].input_tokens = 0, ![key].output_tokens = 0]

\* data[key]["user_messages"] = []; data[key]["assistant_messages"] = []
WithoutHistory(data, key) ==
    [data EXCEPT ![key].user_messages = <<>>, ![key].assistant_messages = <<>>]

\* a mutation of add_tokens that adds the input delta to both counters
WithTokensCrossed(data, key, input_tokens, output_tokens) ==
    [Ensure(data, key) EXCEPT
        ![key].input_tokens = @ + input_tokens,
        ![key].output_tokens = @ + input_tokens]

\* state["input_tokens"] = (state.get("input_tokens") or 0) + input_tokens, same for output
WithTokens(data, key, input_tokens, output_tokens) ==
    [Ensure(data, key) EXCEPT
        ![key].input_tokens = @ + input_tokens,
        ![key].output_tokens = @ + output_tokens]

\* state["input_tokens"] = 0; state["output_tokens"] = 0
WithoutStats(data, key) ==
    [Ensure(data, key) EXCEPT ![key].input_tokens = 0, ![key].output_tokens = 0]

\* (state.get("input_tokens") or 0, state.get("output_tokens") or 0)
StatsOf(state) == <<state.input_tokens, state.output_tokens>>

Entry(role, content) == [role |-> role, content |-> content]

\* the loop of get_messages_for_api: the pairs user_msgs[i], assistant_msgs[i] for i < n
RECURSIVE Pairs(_, _, _)
Pairs(user_msgs, assistant_msgs, n) ==
    IF n = 0 THEN <<>>
    ELSE Pairs(user_msgs, assistant_msgs, n - 1)
         \o <<Entry("user", user_msgs[n]), Entry("assistant", assistant_msgs[n])>>

\* a mutation of the payload that always ends with the newest user message
MessagesForApiAlwaysTail(state, system_prompt) ==
    LET user_msgs == state.user_messages
        assistant_msgs == state.assistant_messages
        n == Min(Len(user_msgs), Len(assistant_msgs))
    IN  <<Entry("system", system_prompt)>>
        \o Pairs(user_msgs, assistant_msgs, n)
        \o (IF Len(user_msgs) > 0 THEN <<Entry("user", user_msgs[Len(user_msgs)])>> ELSE <<>>)

\* get_messages_for_api, from the state get_chat_state returned
MessagesForApi(state, system_prompt) ==
    LET user_msgs == state.user_messages
        assistant_msgs == state.assistant_messages
        n == Min(Len(user_msgs), Len(assistant_msgs))
    IN  <<Entry("system", system_prompt)>>
        \o Pairs(user_msgs, assistant_msgs, n)
        \o (IF Len(user_msgs) > n THEN <<Entry("user", user_msgs[Len(user_msgs)])>> ELSE <<>>)

\* a mutation of _persist_memory that writes nothing
_persist_nothing(data) == file

\* memory.py _persist_memory / _save_json: the file after the whole cache was written
_persist_memory(data) == data

\* ------------------------------------------------------------------------
\* memory.py: the prompt catalog
\* ------------------------------------------------------------------------
\* the reply get_system_prompt gives when no entry has a system_prompt
FallbackPrompt == "fallback"

\* prompts.json as shipped: the default key and the entries in document order
prompts_json ==
    [default_prompt |-> "assistant",
     prompts |-> << [key |-> "assistant", system_prompt |-> "S"],
                    [key |-> "developer", system_prompt |-> "T"] >>]

PromptKeys(prompts) == {prompts[i].key : i \in 1..Len(prompts)}

\* prompts.get(key, default), default being a system prompt or None
PromptOf(prompts, key, default) ==
    IF key \in PromptKeys(prompts)
    THEN (CHOOSE e \in {prompts[i] : i \in 1..Len(prompts)} : e.key = key).system_prompt
    ELSE default

\* data.get("default_prompt", "assistant")
DefaultOf(data) == IF data.default_prompt = None THEN "assistant" ELSE data.default_prompt

\* a mutation of load_prompts that keeps the configured default as it is
load_prompts_as_configured(data) ==
    [default_prompt |-> DefaultOf(data), prompts |-> data.prompts]

\* memory.py load_prompts on a parsed document
load_prompts(data) ==
    LET prompts == data.prompts
        default == DefaultOf(data)
    IN  [default_prompt |->
            IF default \in PromptKeys(prompts) THEN default
            ELSE IF prompts # <<>> THEN prompts[1].key ELSE "assistant",
         prompts |-> prompts]

\* a mutation of get_system_prompt without the step to the "assistant" entry
get_system_prompt_unchained(prompts_data, mode_key) ==
    LET key == IF mode_key = None \/ mode_key = "" THEN DefaultOf(prompts_data) ELSE mode_key
        found == PromptOf(prompts_data.prompts, key, None)
    IN  IF found = None THEN FallbackPrompt ELSE found

\* memory.py get_system_prompt; "mode_key or ..." takes the default for None and ""
get_system_prompt(prompts_data, mode_key) ==
    LET key == IF mode_key = None \/ mode_key = "" THEN DefaultOf(prompts_data) ELSE mode_key
        prompts == prompts_data.prompts
        found == PromptOf(prompts, key, PromptOf(prompts, "assistant", None))
    IN  IF found = None THEN FallbackPrompt ELSE found

\* a mutation of get_prompts_data that reads the document at every call
get_prompts_data_uncached == load_prompts(prompts_file)

\* memory.py get_prompts_data: the cached catalog, loaded when there is none
get_prompts_data ==
    IF prompts_cache = <<>> THEN load_prompts(prompts_file) ELSE prompts_cache[1]

\* nothing read yet
NothingRead == [doc |-> <<>>, reads |-> 0, reloaded |-> FALSE]

\* what a call of get_prompts_data leaves as read: it reads when nothing is cached
ReadByLookup ==
    IF prompts_cache = <<>>
    THEN [last_read EXCEPT !.doc = <<prompts_file>>, !.reads = @ + 1]
    ELSE last_read

Returned(op, chat_id, arg, value) == [op |-> op, chat |-> chat_id, arg |-> arg, value |-> value]

\* ------------------------------------------------------------------------
\* memory.py: the store calls as actions
\* ------------------------------------------------------------------------
get_chat_state(chat_id) ==
    LET key == _chat_key(chat_id)
        data == Ensure(_get_memory_data, key)
    IN  /\ cache' = data
        /\ ret' = Returned("get_chat_state", chat_id, None, data[key])
        /\ UNCHANGED <<file, ghostVars>>
        /\ UNCHANGED <<handlerVars, splitVars, promptVars>>

set_chat_mode(chat_id, mode_key) ==
    LET data == WithMode(_get_memory_data, _chat_key(chat_id), mode_key)
    IN  /\ cache' = data
        /\ file' = _persist_memory(data)
        /\ ret' = Returned("set_chat_mode", chat_id, None, None)
        /\ UNCHANGED ghostVars
        /\ UNCHANGED <<handlerVars, splitVars, promptVars>>

append_user_message(chat_id, text) ==
    LET data == WithUserMessage(_get_memory_data, _chat_key(chat_id), text)
    IN  /\ cache' = data
        /\ file' = _persist_memory(data)
        /\ ret' = Returned("append_user_message", chat_id, None, None)
        /\ userHist' = [userHist EXCEPT ![chat_id] = Append(@, text)]
        /\ UNCHANGED <<asstHist, lost, stale, sumIn, sumOut>>
        /\ UNCHANGED <<handlerVars, splitVars, promptVars>>

append_assistant_message(chat_id, text) ==
    LET data == WithAssistantMessage(_get_memory_data, _chat_key(chat_id), text)
    IN  /\ cache' = data
        /\ file' = _persist_memory(data)
        /\ ret' = Returned("append_assistant_message", chat_id, None, None)
        /\ asstHist' = [asstHist EXCEPT ![chat_id] = Append(@, text)]
        /\ UNCHANGED <<userHist, lost, stale, sumIn, sumOut>>
        /\ UNCHANGED <<handlerVars, splitVars, promptVars>>

get_messages_for_api(chat_id, system_prompt) ==
    LET key == _chat_key(chat_id)
        data == Ensure(_get_memory_data, key)
    IN  /\ cache' = data
        /\ ret' = Returned("get_messages_for_api", chat_id, system_prompt, MessagesForApi(data[key], system_prompt))
        /\ UNCHANGED <<file, ghostVars>>
        /\ UNCHANGED <<handlerVars, splitVars, promptVars>>

reset_chat(chat_id) ==
    LET key == _chat_key(chat_id)
        data == _get_memory_data
    IN  /\ ret' = Returned("reset_chat", chat_id, None, None)
        /\ IF key \in DOMAIN data
           THEN /\ cache' = WithoutHistory(data, key)
                /\ file' = _persist_memory(cache')
           ELSE /\ cache' = data
                /\ file' = file
        /\ userHist' = [userHist EXCEPT ![chat_id] = <<>>]
        /\ asstHist' = [asstHist EXCEPT ![chat_id] = <<>>]
        /\ lost' = [lost EXCEPT ![chat_id] = {}]
        /\ stale' = [stale EXCEPT ![chat_id] = FALSE]
        /\ UNCHANGED <<sumIn, sumOut>>
        /\ UNCHANGED <<handlerVars, splitVars, promptVars>>

get_chat_stats(chat_id) ==
    LET key == _chat_key(chat_id)
        data == Ensure(_get_memory_data, key)
    IN  /\ cache' = data
        /\ ret' = Returned("get_chat_stats", chat_id, None, StatsOf(data[key]))
        /\ UNCHANGED <<file, ghostVars>>
        /\ UNCHANGED <<handlerVars, splitVars, promptVars>>

add_tokens(chat_id, input_tokens, output_tokens) ==
    LET data == WithTokens(_get_memory_data, _chat_key(chat_id), input_tokens, output_tokens)
    IN  /\ cache' = data
        /\ file' = _persist_memory(data)
        /\ ret' = Returned("add_tokens", chat_id, None, None)
        /\ sumIn' = [sumIn EXCEPT ![chat_id] = @ + input_tokens]
        /\ sumOut' = [sumOut EXCEPT ![chat_id] = @ + output_tokens]
        /\ UNCHANGED histVars
        /\ UNCHANGED <<handlerVars, splitVars, promptVars>>

reset_chat_stats(chat_id) ==
    LET data == WithoutStats(_get_memory_data, _chat_key(chat_id))
    IN  /\ cache' = data
        /\ file' = _persist_memory(data)
        /\ ret' = Returned("reset_chat_stats", chat_id, None, None)
        /\ sumIn' = [sumIn EXCEPT ![chat_id] = 0]
        /\ sumOut' = [sumOut EXCEPT ![chat_id] = 0]
        /\ UNCHANGED histVars
        /\ UNCHANGED <<handlerVars, splitVars, promptVars>>

\* the process is started again: memory.py line 63 runs, memory.json stays
Restart ==
    /\ cache # EmptyDoc
    /\ cache' = EmptyDoc
    /\ ret' = Returned("start", 0, None, None)
    /\ UNCHANGED <<file, ghostVars, handlerVars, splitVars, promptVars>>

\* ------------------------------------------------------------------------
\* Specification of the store: any call, any chat, in any order
\* ------------------------------------------------------------------------
\* the k-th text given to a window since its last reset
NextText(origin, hist) == <<origin, Len(hist) + 1>>

\* the counters of a chat as the next call will find them
Counter(chat_id, field) ==
    LET data == Ensure(_get_memory_data, _chat_key(chat_id))
    IN  data[_chat_key(chat_id)][field]

\* no request in flight
NoRequest == [text |-> <<>>, messages |-> <<>>, content |-> <<>>]

Init ==
    /\ cache = EmptyDoc
    /\ file = EmptyDoc
    /\ ret = Returned("start", 0, None, None)
    /\ userHist = [c \in ChatIds |-> <<>>]
    /\ asstHist = [c \in ChatIds |-> <<>>]
    /\ sumIn = [c \in ChatIds |-> 0]
    /\ sumOut = [c \in ChatIds |-> 0]
    /\ prompts_cache = <<>>
    /\ prompts_file = prompts_json
    /\ last_read = NothingRead
    /\ pc = [c \in ChatIds |-> "idle"]
    /\ req = [c \in ChatIds |-> NoRequest]
    /\ turn = [c \in ChatIds |-> 0]
    /\ lost = [c \in ChatIds |-> {}]
    /\ stale = [c \in ChatIds |-> FALSE]
    /\ split_text = <<>>
    /\ split_max = TELEGRAM_MESSAGE_LIMIT
    /\ rest = <<>>
    /\ chunks = <<>>
    /\ spc = "done"

\* add_tokens with deltas that keep both counters within limit
AddTokensWithin(c, limit) ==
    \E i \in TokenDeltas, o \in TokenDeltas :
        /\ Counter(c, "input_tokens") + i <= limit
        /\ Counter(c, "output_tokens") + o <= limit
        /\ add_tokens(c, i, o)

Next ==
    \/ \E c \in ChatIds : get_chat_state(c)
    \/ \E c \in ChatIds, m \in ModeKeys : set_chat_mode(c, m)
    \/ \E c \in ChatIds :
        /\ Len(userHist[c]) < MaxStoreAppends
        /\ append_user_message(c, NextText("u", userHist[c]))
    \/ \E c \in ChatIds :
        /\ Len(asstHist[c]) < MaxStoreAppends
        /\ append_assistant_message(c, NextText("a", asstHist[c]))
    \/ \E c \in ChatIds : reset_chat(c)
    \/ \E c \in ChatIds : get_chat_stats(c)
    \/ \E c \in ChatIds : AddTokensWithin(c, MaxStoreTokens)
    \/ \E c \in ChatIds : reset_chat_stats(c)
    \/ Restart

Spec == Init /\ [][Next]_vars

\* ------------------------------------------------------------------------
\* Specification of the windows: appends past the window size, resets, payloads
\* ------------------------------------------------------------------------
WindowNext ==
    \/ \E c \in ChatIds :
        /\ Len(userHist[c]) < MaxAppends
        /\ append_user_message(c, NextText("u", userHist[c]))
    \/ \E c \in ChatIds :
        /\ Len(asstHist[c]) < MaxAppends
        /\ append_assistant_message(c, NextText("a", asstHist[c]))
    \/ \E c \in ChatIds : reset_chat(c)
    \/ \E c \in ChatIds, s \in SystemPrompts : get_messages_for_api(c, s)

WindowSpec == Init /\ [][WindowNext]_vars

\* ------------------------------------------------------------------------
\* Specification of the token ledger
\* ------------------------------------------------------------------------
LedgerNext ==
    \/ \E c \in ChatIds : AddTokensWithin(c, MaxTokens)
    \/ \E c \in ChatIds : reset_chat_stats(c)
    \/ \E c \in ChatIds : get_chat_stats(c)
    \/ \E c \in ChatIds : reset_chat(c)
    \/ \E c \in ChatIds, m \in ModeKeys : set_chat_mode(c, m)
    \/ \E c \in ChatIds : get_chat_state(c)
    \/ Restart

LedgerSpec == Init /\ [][LedgerNext]_vars

\* ------------------------------------------------------------------------
\* main.py: _handle_openai_request, cut at its awaits, and cmd_reset
\* ------------------------------------------------------------------------
Range(seq) == {seq[i] : i \in 1..Len(seq)}

\* the empty string the API may return as content
EmptyContent == <<>>

\* a response without usage
NoUsage == <<>>

\* lines 545-564: the user message is stored, the payload is built, the API call begins
RequestReceived(chat_id) ==
    LET key == _chat_key(chat_id)
        user_text == <<"u", turn[chat_id] + 1>>
        data == WithUserMessage(_get_memory_data, key, user_text)
        prompts_data == get_prompts_data
        state == data[key]
        current_mode == IF state.mode # None THEN state.mode ELSE DefaultOf(prompts_data)
        system_prompt == get_system_prompt(prompts_data, current_mode)
        messages == MessagesForApi(state, system_prompt)
    IN  /\ pc[chat_id] = "idle"
        /\ cache' = data
        /\ file' = _persist_memory(data)
        /\ prompts_cache' = <<prompts_data>>
        /\ ret' = Returned("get_messages_for_api", chat_id, system_prompt, messages)
        /\ req' = [req EXCEPT ![chat_id] =
                      [text |-> user_text, messages |-> messages, content |-> <<>>]]
        /\ turn' = [turn EXCEPT ![chat_id] = @ + 1]
        /\ pc' = [pc EXCEPT ![chat_id] = "awaiting"]
        /\ userHist' = [userHist EXCEPT ![chat_id] = Append(@, user_text)]
        /\ last_read' = ReadByLookup
        /\ UNCHANGED <<asstHist, lost, stale, sumIn, sumOut, splitVars, prompts_file>>

\* lines 564-592: the API answered; usage, when given, is added to the counters
ApiResponded(chat_id, content, usage) ==
    LET key == _chat_key(chat_id)
        data == IF usage = NoUsage THEN _get_memory_data
                ELSE WithTokens(_get_memory_data, key, usage[1], usage[2])
    IN  /\ pc[chat_id] = "awaiting"
        /\ IF usage = NoUsage
           THEN UNCHANGED <<cache, file, ret, sumIn, sumOut>>
           ELSE /\ cache' = data
                /\ file' = _persist_memory(data)
                /\ ret' = Returned("get_chat_stats", chat_id, None, StatsOf(data[key]))
                /\ sumIn' = [sumIn EXCEPT ![chat_id] = @ + usage[1]]
                /\ sumOut' = [sumOut EXCEPT ![chat_id] = @ + usage[2]]
        /\ req' = [req EXCEPT ![chat_id].content = content]
        /\ pc' = [pc EXCEPT ![chat_id] = "stopping"]
        /\ UNCHANGED <<histVars, prompts_cache, turn, splitVars, promptVars>>

\* the request of chat_id has ended without an assistant message
Lose(chat_id) ==
    IF req[chat_id].text \in Range(userHist[chat_id])
    THEN [lost EXCEPT ![chat_id] = @ \cup {req[chat_id].text[2]}]
    ELSE lost

\* lines 593-602: the API call raised; the error is reported and the handler returns
ApiFailed(chat_id) ==
    /\ pc[chat_id] = "awaiting"
    /\ pc' = [pc EXCEPT ![chat_id] = "idle"]
    /\ req' = [req EXCEPT ![chat_id] = NoRequest]
    /\ lost' = Lose(chat_id)
    /\ UNCHANGED <<cache, file, ret, userHist, asstHist, stale, sumIn, sumOut,
                   prompts_cache, turn, splitVars, promptVars>>

\* lines 603-627: the typing task has stopped; a non-empty reply is stored and sent
RequestFinished(chat_id) ==
    LET key == _chat_key(chat_id)
        content == req[chat_id].content
        data == WithAssistantMessage(_get_memory_data, key, content)
    IN  /\ pc[chat_id] = "stopping"
        /\ IF content # EmptyContent
           THEN /\ cache' = data
                /\ file' = _persist_memory(data)
                /\ ret' = Returned("append_assistant_message", chat_id, None, None)
                /\ asstHist' = [asstHist EXCEPT ![chat_id] = Append(@, content)]
                /\ stale' = [stale EXCEPT ![chat_id] =
                                @ \/ req[chat_id].text \notin Range(userHist[chat_id])]
                /\ lost' = lost
           ELSE /\ UNCHANGED <<cache, file, ret, asstHist, stale>>
                /\ lost' = Lose(chat_id)
        /\ pc' = [pc EXCEPT ![chat_id] = "idle"]
        /\ req' = [req EXCEPT ![chat_id] = NoRequest]
        /\ UNCHANGED <<userHist, sumIn, sumOut, prompts_cache, turn, splitVars, promptVars>>

\* main.py cmd_reset
cmd_reset(chat_id) == reset_chat(chat_id)

\* the usage an API response carries: none, or token counts that keep the counters within limit
Usages(chat_id, limit) ==
    {NoUsage} \cup {u \in TokenDeltas \X TokenDeltas :
                    /\ u # <<0, 0>>
                    /\ Counter(chat_id, "input_tokens") + u[1] <= limit
                    /\ Counter(chat_id, "output_tokens") + u[2] <= limit}

\* the reply to the request in flight
ReplyTo(chat_id) == <<"a", req[chat_id].text[2]>>

\* ------------------------------------------------------------------------
\* Specification of lockstep turns: every request is answered before the next
\* ------------------------------------------------------------------------
LockstepNext ==
    \/ \E c \in ChatIds : turn[c] < MaxTurns /\ RequestReceived(c)
    \/ \E c \in ChatIds : \E u \in Usages(c, MaxStoreTokens) : ApiResponded(c, ReplyTo(c), u)
    \/ \E c \in ChatIds : RequestFinished(c)

LockstepSpec == Init /\ [][LockstepNext]_vars

\* ------------------------------------------------------------------------
\* Specification of the turns of one chat: failed calls, empty replies, resets
\* ------------------------------------------------------------------------
TurnChats == {1}

TurnNext ==
    \/ \E c \in TurnChats : turn[c] < MaxTurns /\ RequestReceived(c)
    \/ \E c \in TurnChats : \E u \in Usages(c, MaxStoreTokens) : ApiResponded(c, ReplyTo(c), u)
    \/ \E c \in TurnChats :
        /\ Cardinality(lost[c]) < MaxLost
        /\ \E u \in Usages(c, MaxStoreTokens) : ApiResponded(c, EmptyContent, u)
    \/ \E c \in TurnChats : Cardinality(lost[c]) < MaxLost /\ ApiFailed(c)
    \/ \E c \in TurnChats : RequestFinished(c)
    \/ \E c \in TurnChats : cmd_reset(c)

TurnSpec == Init /\ [][TurnNext]_vars

\* ------------------------------------------------------------------------
\* Specification of interleaved handlers: the text handlers of both chats, each
\* suspended at its awaits only, with failed calls and empty replies
\* ------------------------------------------------------------------------
ConcurrentNext ==
    \/ \E c \in ChatIds : turn[c] < MaxConcurrentTurns /\ RequestReceived(c)
    \/ \E c \in ChatIds : \E u \in Usages(c, MaxStoreTokens) : ApiResponded(c, ReplyTo(c), u)
    \/ \E c \in ChatIds : \E u \in Usages(c, MaxStoreTokens) : ApiResponded(c, EmptyContent, u)
    \/ \E c \in ChatIds : ApiFailed(c)
    \/ \E c \in ChatIds : RequestFinished(c)

ConcurrentSpec == Init /\ [][ConcurrentNext]_vars

\* ------------------------------------------------------------------------
\* main.py: split_message, one action per pass of its loop
\* ------------------------------------------------------------------------
NL == "\n"

Chars == {"a", NL}

\* Python's block.rfind("\n"): the 0-based index of the last newline, -1 without one
rfind_newline(block) ==
    LET at == {i \in 1..Len(block) : block[i] = NL}
    IN  IF at = {} THEN -1 ELSE (CHOOSE i \in at : \A j \in at : j <= i) - 1

\* a mutation of the strip that keeps the newlines
lstrip_nothing(s) == s

\* a mutation of the strip that drops the first character, whatever it is
lstrip_first(s) == IF s # <<>> THEN Tail(s) ELSE s

\* Python's s.lstrip("\n")
RECURSIVE lstrip_newlines(_)
lstrip_newlines(s) ==
    IF s # <<>> /\ Head(s) = NL THEN lstrip_newlines(Tail(s)) ELSE s

\* a mutation of the cut that cuts before any newline found, wherever it lies
CutBeforeNewline(r, max_length) ==
    LET last_newline == rfind_newline(SubSeq(r, 1, max_length))
    IN  IF last_newline >= 0 THEN last_newline ELSE max_length

\* a mutation of the cut that takes a newline at the midpoint too
CutAtMidpoint(r, max_length) ==
    LET last_newline == rfind_newline(SubSeq(r, 1, max_length))
    IN  IF last_newline >= max_length \div 2 /\ last_newline >= 0
        THEN last_newline + 1 ELSE max_length

\* lines 176-181: where the pass cuts a rest that is longer than max_length
Cut(r, max_length) ==
    LET block == SubSeq(r, 1, max_length)
        last_newline == rfind_newline(block)
    IN  IF last_newline > max_length \div 2 THEN last_newline + 1 ELSE max_length

\* lines 168-171
SplitStart ==
    /\ spc = "start"
    /\ IF Len(split_text) <= split_max
       THEN /\ chunks' = (IF split_text # <<>> THEN <<split_text>> ELSE <<>>)
            /\ rest' = rest
            /\ spc' = "done"
       ELSE /\ chunks' = <<>>
            /\ rest' = split_text
            /\ spc' = "loop"
    /\ UNCHANGED <<split_text, split_max, cache, file, ret, ghostVars, handlerVars,
                   promptVars>>

\* lines 172-183: one pass of the while loop
SplitPass ==
    /\ spc = "loop"
    /\ IF rest = <<>>
       THEN /\ spc' = "done"
            /\ UNCHANGED <<rest, chunks>>
       ELSE IF Len(rest) <= split_max
       THEN /\ chunks' = Append(chunks, rest)
            /\ spc' = "done"
            /\ rest' = rest
       ELSE LET cut == Cut(rest, split_max)
            IN  /\ chunks' = Append(chunks, SubSeq(rest, 1, cut))
                /\ rest' = lstrip_newlines(SubSeq(rest, cut + 1, Len(rest)))
                /\ spc' = "loop"
    /\ UNCHANGED <<split_text, split_max, cache, file, ret, ghostVars, handlerVars,
                   promptVars>>

\* the texts of at most n characters
Texts(n) == UNION {[1..k -> Chars] : k \in 0..n}

SplitInit ==
    /\ cache = EmptyDoc
    /\ file = EmptyDoc
    /\ ret = Returned("start", 0, None, None)
    /\ userHist = [c \in ChatIds |-> <<>>]
    /\ asstHist = [c \in ChatIds |-> <<>>]
    /\ sumIn = [c \in ChatIds |-> 0]
    /\ sumOut = [c \in ChatIds |-> 0]
    /\ prompts_cache = <<>>
    /\ prompts_file = prompts_json
    /\ last_read = NothingRead
    /\ pc = [c \in ChatIds |-> "idle"]
    /\ req = [c \in ChatIds |-> NoRequest]
    /\ turn = [c \in ChatIds |-> 0]
    /\ lost = [c \in ChatIds |-> {}]
    /\ stale = [c \in ChatIds |-> FALSE]
    /\ split_text \in Texts(MaxTextLen)
    /\ split_max \in 1..MaxSplitLength
    /\ rest = <<>>
    /\ chunks = <<>>
    /\ spc = "start"

SplitNext == SplitStart \/ SplitPass

\* the call runs to its return: nothing suspends split_message
SplitSpec == SplitInit /\ [][SplitNext]_vars /\ WF_vars(SplitNext)

\* ------------------------------------------------------------------------
\* memory.py: the prompt catalog
\* ------------------------------------------------------------------------
\* the keys an entry of prompts.json can have
PromptKeyPool == {"assistant", "developer", "writer"}

\* the values of default_prompt, None when the document has none
DefaultKeys == {None, "assistant", "developer", "ghost"}

\* the mode_key arguments of get_system_prompt
ModeArgs == {None, "", "assistant", "developer", "writer", "ghost"}

\* an entry of prompts; system_prompt is None when the entry has none
PromptEntries == [key : PromptKeyPool, system_prompt : SystemPrompts \cup {None}]

\* the documents of at most n entries, their keys distinct; the document without
\* default and entries is what _load_json gives for a missing or broken file
Documents(n) ==
    {[default_prompt |-> d, prompts |-> ps] :
        d \in DefaultKeys,
        ps \in {q \in UNION {[1..k -> PromptEntries] : k \in 0..n} :
                    \A i, j \in 1..Len(q) : q[i].key = q[j].key => i = j}}

\* the documents prompts.json is rewritten to while the process runs
Revisions == Documents(1)

\* a call of load_prompts
LoadPrompts ==
    /\ ret' = Returned("load_prompts", 0, prompts_file, load_prompts(prompts_file))
    /\ UNCHANGED <<cache, file, ghostVars, handlerVars, splitVars, promptVars>>

\* a call of get_system_prompt, on a catalog as loaded or on the document itself
GetSystemPrompt(mode_key) ==
    \E prompts_data \in {load_prompts(prompts_file), prompts_file} :
        /\ ret' = Returned("get_system_prompt", 0,
                           [prompts_data |-> prompts_data, mode_key |-> mode_key],
                           get_system_prompt(prompts_data, mode_key))
        /\ UNCHANGED <<cache, file, ghostVars, handlerVars, splitVars, promptVars>>

\* a call of get_prompts_data made for a chat
GetPromptsData(chat_id) ==
    LET prompts_data == get_prompts_data
    IN  /\ prompts_cache' = <<prompts_data>>
        /\ last_read' = ReadByLookup
        /\ ret' = Returned("get_prompts_data", chat_id, None, prompts_data)
        /\ UNCHANGED <<cache, file, ghostVars, pc, req, turn, splitVars, prompts_file>>

\* memory.py reload_prompts
reload_prompts ==
    LET prompts_data == load_prompts(prompts_file)
    IN  /\ prompts_cache' = <<prompts_data>>
        /\ last_read' = [doc |-> <<prompts_file>>, reads |-> 0, reloaded |-> TRUE]
        /\ ret' = Returned("reload_prompts", 0, None, prompts_data)
        /\ UNCHANGED <<cache, file, ghostVars, pc, req, turn, splitVars, prompts_file>>

\* prompts.json is rewritten from outside the process
EditPrompts(document) ==
    /\ prompts_file # document
    /\ prompts_file' = document
    /\ ret' = Returned("edit", 0, None, None)
    /\ UNCHANGED <<cache, file, ghostVars, handlerVars, splitVars, last_read>>

PromptInit ==
    /\ cache = EmptyDoc
    /\ file = EmptyDoc
    /\ ret = Returned("start", 0, None, None)
    /\ userHist = [c \in ChatIds |-> <<>>]
    /\ asstHist = [c \in ChatIds |-> <<>>]
    /\ sumIn = [c \in ChatIds |-> 0]
    /\ sumOut = [c \in ChatIds |-> 0]
    /\ prompts_cache = <<>>
    /\ prompts_file \in Documents(MaxPrompts)
    /\ last_read = NothingRead
    /\ pc = [c \in ChatIds |-> "idle"]
    /\ req = [c \in ChatIds |-> NoRequest]
    /\ turn = [c \in ChatIds |-> 0]
    /\ lost = [c \in ChatIds |-> {}]
    /\ stale = [c \in ChatIds |-> FALSE]
    /\ split_text = <<>>
    /\ split_max = TELEGRAM_MESSAGE_LIMIT
    /\ rest = <<>>
    /\ chunks = <<>>
    /\ spc = "done"

\* the two functions of the catalog applied to every document
PromptNext ==
    \/ LoadPrompts
    \/ \E m \in ModeArgs : GetSystemPrompt(m)

PromptSpec == PromptInit /\ [][PromptNext]_vars

\* lookups and reloads while the document is rewritten
CatalogNext ==
    \/ \E c \in ChatIds : GetPromptsData(c)
    \/ reload_prompts
    \/ \E d \in Revisions : EditPrompts(d)

CatalogSpec == Init /\ [][CatalogNext]_vars

\* ------------------------------------------------------------------------
\* Properties
\* ------------------------------------------------------------------------
\* the stored state of a chat as the next call will find it
Stored(c) == Ensure(_get_memory_data, _chat_key(c))[_chat_key(c)]

Known(c) == _chat_key(c) \in DOMAIN _get_memory_data

\* w holds exactly the last min(Len(hist), max) entries of hist, in order, newest last
IsTailOf(w, hist, max) ==
    /\ Len(w) = (IF Len(hist) <= max THEN Len(hist) ELSE max)
    /\ \A i \in 1..Len(w) : w[i] = hist[Len(hist) - Len(w) + i]

\* C1: each window holds exactly the last min(k, MAX) texts appended to it since
\* the last reset_chat, in append order with the newest last, so neither window
\* is ever longer than its maximum.
C1_WindowsAreTails ==
    \A c \in ChatIds :
        /\ IsTailOf(Stored(c).user_messages, userHist[c], MAX_USER_MESSAGES)
        /\ IsTailOf(Stored(c).assistant_messages, asstHist[c], MAX_ASSISTANT_MESSAGES)
        /\ Len(Stored(c).user_messages) <= MAX_USER_MESSAGES
        /\ Len(Stored(c).assistant_messages) <= MAX_ASSISTANT_MESSAGES

\* an append has just evicted the oldest entry of a full user window while the
\* assistant window of the same chat is full too
C1_Witness ==
    /\ ret.op = "append_user_message"
    /\ Len(userHist[ret.chat]) > MAX_USER_MESSAGES
    /\ Len(asstHist[ret.chat]) > MAX_ASSISTANT_MESSAGES
    /\ Len(Stored(ret.chat).user_messages) = MAX_USER_MESSAGES
    /\ Stored(ret.chat).user_messages[1] = <<"u", 2>>

\* C2: get_messages_for_api returns one system entry with the given prompt, then
\* the pairs user[i], assistant[i] for i < n = min of the window lengths, then one
\* more user entry with the last user message iff the user window is longer than
\* n; 1 + 2n + (0 or 1) entries; the stored chat state and the file are as before.
C2_PayloadShape ==
    [][ret'.op = "get_messages_for_api" =>
        LET c == ret'.chat
            before == Stored(c)
            u == before.user_messages
            a == before.assistant_messages
            n == IF Len(u) <= Len(a) THEN Len(u) ELSE Len(a)
            r == ret'.value
        IN  /\ Len(r) = 1 + 2 * n + (IF Len(u) > n THEN 1 ELSE 0)
            /\ r[1] = [role |-> "system", content |-> ret'.arg]
            /\ \A i \in 1..n :
                /\ r[2 * i] = [role |-> "user", content |-> u[i]]
                /\ r[2 * i + 1] = [role |-> "assistant", content |-> a[i]]
            /\ Len(u) > n => r[2 * n + 2] = [role |-> "user", content |-> u[Len(u)]]
            /\ \A i \in 2..Len(r) : r[i].role # "system"
            /\ cache'[_chat_key(c)] = before
            /\ file' = file
    ]_vars

\* a payload with pairs and a trailing user entry, and one with pairs and none
C2_Witness ==
    /\ ret.op = "get_messages_for_api"
    /\ Len(Stored(ret.chat).user_messages) = 2
    /\ Len(Stored(ret.chat).assistant_messages) = 1
    /\ ret.value = << [role |-> "system", content |-> "S"],
                      [role |-> "user", content |-> <<"u", 1>>],
                      [role |-> "assistant", content |-> <<"a", 1>>],
                      [role |-> "user", content |-> <<"u", 2>>] >>

\* C3 as stated: in the text-request handler the payload, built right after the
\* user message was appended, always ends with that message, with role user.
C3_Original ==
    \A c \in ChatIds :
        pc[c] = "awaiting" =>
            req[c].messages[Len(req[c].messages)] = [role |-> "user", content |-> req[c].text]

\* the ordinal of a text
Ord(t) == t[2]

\* the number of (user, assistant) pairs of a payload
PairCount(messages) == (Len(messages) - 1) \div 2

\* C4 as stated: while the appends stay in lockstep, every pair of a payload is a
\* user message and the reply to that same message, in chronological order, for
\* any number of turns.
C4_Original ==
    \A c \in ChatIds :
        pc[c] = "awaiting" =>
            LET m == req[c].messages
            IN  \A i \in 1..PairCount(m) :
                    /\ m[2 * i].role = "user"
                    /\ m[2 * i + 1].role = "assistant"
                    /\ Ord(m[2 * i].content) = Ord(m[2 * i + 1].content)
                    /\ i > 1 => Ord(m[2 * i - 2].content) < Ord(m[2 * i].content)

\* the positions both windows of a chat have
Both(c) ==
    1..Min(Len(Stored(c).user_messages), Len(Stored(c).assistant_messages))

\* position i of the user window of c is at or after a message that got no reply
AfterLost(c, i) == \E l \in lost[c] : l <= Ord(Stored(c).user_messages[i])

\* C5 as stated: once a request ended without an assistant message, and until
\* reset_chat, no position at or after it ever again holds a user message
\* together with its own reply.
C5_Original ==
    \A c \in TurnChats :
        ~stale[c] =>
            \A i \in Both(c) :
                AfterLost(c, i) =>
                    Ord(Stored(c).assistant_messages[i]) # Ord(Stored(c).user_messages[i])

\* C5 (amended): the shift lasts while the user window has not overflowed: until
\* then a position at or after an unanswered message holds the reply to a later
\* message and a position before it holds the message's own reply. It is not
\* permanent: once every unanswered message has left the full user window and
\* the last request is answered, the windows agree position by position again.
C5_ShiftUntilEviction ==
    \A c \in TurnChats :
        ~stale[c] =>
            /\ Len(userHist[c]) <= MAX_USER_MESSAGES =>
                \A i \in Both(c) :
                    IF AfterLost(c, i)
                    THEN Ord(Stored(c).assistant_messages[i]) > Ord(Stored(c).user_messages[i])
                    ELSE Ord(Stored(c).assistant_messages[i]) = Ord(Stored(c).user_messages[i])
            /\ ( /\ pc[c] = "idle"
                 /\ lost[c] # {}
                 /\ Len(Stored(c).user_messages) = MAX_USER_MESSAGES
                 /\ \A l \in lost[c] : l < Ord(Stored(c).user_messages[1]) ) =>
                /\ Len(Stored(c).assistant_messages) = Len(Stored(c).user_messages)
                /\ \A i \in Both(c) :
                    Ord(Stored(c).assistant_messages[i]) = Ord(Stored(c).user_messages[i])

\* a failed call in the past, its message evicted, and the windows agree again
C5_Witness ==
    \E c \in TurnChats :
        /\ pc[c] = "idle"
        /\ ~stale[c]
        /\ lost[c] # {}
        /\ Len(Stored(c).user_messages) = MAX_USER_MESSAGES
        /\ \A l \in lost[c] : l < Ord(Stored(c).user_messages[1])
        /\ \A i \in Both(c) :
            Ord(Stored(c).assistant_messages[i]) = Ord(Stored(c).user_messages[i])

MutatingOps ==
    {"set_chat_mode", "append_user_message", "append_assistant_message",
     "add_tokens", "reset_chat_stats"}

\* C6: right after set_chat_mode, append_user_message, append_assistant_message,
\* add_tokens, reset_chat_stats, and reset_chat on an existing chat, the file
\* equals the whole in-memory store.
C6_PersistedAfterMutation ==
    (\/ ret.op \in MutatingOps
     \/ ret.op = "reset_chat" /\ _chat_key(ret.chat) \in DOMAIN cache)
        => file = cache

\* a mutation of one chat has written the entry of the other chat as well
C6_Witness ==
    /\ ret.op = "reset_chat"
    /\ DOMAIN cache = {_chat_key(c) : c \in ChatIds}
    /\ file = cache
    /\ \E c \in ChatIds : c # ret.chat /\ cache[_chat_key(c)].user_messages # <<>>

\* C7 as stated: when get_chat_state returns, the file holds the entry it returned
C7_Original ==
    ret.op = "get_chat_state" =>
        /\ _chat_key(ret.chat) \in DOMAIN file
        /\ file[_chat_key(ret.chat)] = ret.value

\* C7 (amended): get_chat_state on a chat without entry creates the default
\* entry in the in-memory store only and leaves the file as it is; on a chat
\* with an entry it returns that entry unchanged; no other entry changes.
C7_CreatesInMemoryOnly ==
    [][ret'.op = "get_chat_state" =>
        LET key == _chat_key(ret'.chat)
            before == _get_memory_data
        IN  /\ file' = file
            /\ cache'[key] = ret'.value
            /\ key \in DOMAIN before => ret'.value = before[key]
            /\ key \notin DOMAIN before =>
                /\ ret'.value = [mode |-> None, user_messages |-> <<>>,
                                 assistant_messages |-> <<>>,
                                 input_tokens |-> 0, output_tokens |-> 0]
                /\ key \notin DOMAIN file'
            /\ DOMAIN cache' = DOMAIN before \cup {key}
            /\ \A k \in DOMAIN before : cache'[k] = before[k]
    ]_vars

\* a first access created an entry the file does not hold, beside a stored chat
C7_Witness ==
    /\ ret.op = "get_chat_state"
    /\ _chat_key(ret.chat) \in DOMAIN cache
    /\ _chat_key(ret.chat) \notin DOMAIN file
    /\ \E k \in DOMAIN file : file[k].user_messages # <<>>

\* C8: reset_chat on an existing chat empties both windows, keeps the mode and
\* both token counters (so get_chat_stats returns the same pair), and the
\* result is in the file.
C8_ResetKeepsModeAndStats ==
    [][(ret'.op = "reset_chat" /\ Known(ret'.chat)) =>
        LET key == _chat_key(ret'.chat)
            before == Stored(ret'.chat)
        IN  /\ cache'[key].user_messages = <<>>
            /\ cache'[key].assistant_messages = <<>>
            /\ cache'[key].mode = before.mode
            /\ cache'[key].input_tokens = before.input_tokens
            /\ cache'[key].output_tokens = before.output_tokens
            /\ StatsOf(cache'[key]) = StatsOf(before)
            /\ file' = cache'
    ]_vars

\* a reset has emptied the windows of a chat that has a mode and counted tokens
C8_Witness ==
    /\ ret.op = "reset_chat"
    /\ Known(ret.chat)
    /\ Stored(ret.chat).mode # None
    /\ Stored(ret.chat).input_tokens > 0
    /\ Stored(ret.chat).output_tokens > 0
    /\ Stored(ret.chat).user_messages = <<>>
    /\ file = cache

DeltaPairs == TokenDeltas \X TokenDeltas

\* C9: both counters are >= 0 and equal the sums of the deltas given to
\* add_tokens since the last reset_chat_stats, whatever the order of two
\* add_tokens calls; reset_chat_stats zeroes both and is the only call after
\* which a counter is smaller than before.
C9_CountersAreSums ==
    /\ [](\A c \in ChatIds :
            /\ Stored(c).input_tokens = sumIn[c]
            /\ Stored(c).output_tokens = sumOut[c]
            /\ Stored(c).input_tokens >= 0
            /\ Stored(c).output_tokens >= 0
            /\ \A d \in DeltaPairs, e \in DeltaPairs :
                LET key == _chat_key(c)
                    data == [k \in {key} |-> Stored(c)]
                IN  WithTokens(WithTokens(data, key, d[1], d[2]), key, e[1], e[2])
                    = WithTokens(WithTokens(data, key, e[1], e[2]), key, d[1], d[2]))
    /\ [][\A c \in ChatIds :
            /\ (ret'.op = "reset_chat_stats" /\ ret'.chat = c) =>
                StatsOf(cache'[_chat_key(c)]) = <<0, 0>>
            /\ (\/ Stored(c).input_tokens' < Stored(c).input_tokens
                \/ Stored(c).output_tokens' < Stored(c).output_tokens) =>
                (ret'.op = "reset_chat_stats" /\ ret'.chat = c)
       ]_vars

\* two non-zero deltas have been added to a chat, in both counters
C9_Witness ==
    /\ ret.op = "add_tokens"
    /\ Stored(ret.chat).input_tokens = 3
    /\ Stored(ret.chat).output_tokens = 2

\* C10: for every text and every max_length >= 1 split_message returns, every
\* piece it returns is non-empty and at most max_length long, the empty text
\* gives no piece and a non-empty text of at most max_length gives itself alone.
C10_PiecesWithinLimit ==
    /\ <>(spc = "done")
    /\ [](/\ split_max >= 1
          /\ \A i \in 1..Len(chunks) : chunks[i] # <<>> /\ Len(chunks[i]) <= split_max
          /\ spc = "done" =>
                /\ split_text = <<>> => chunks = <<>>
                /\ (split_text # <<>> /\ Len(split_text) <= split_max) => chunks = <<split_text>>)
    /\ [][spc = "loop" /\ spc' = "loop" => Len(rest') < Len(rest)]_vars

\* a return after a cut at a newline and a hard cut, with a newline run stripped
C10_Witness ==
    /\ spc = "done"
    /\ split_max = 3
    /\ split_text = <<"a", "a", NL, NL, "a", "a", "a">>
    /\ chunks = << <<"a", "a", NL>>, <<"a", "a", "a">> >>

\* the least element of a non-empty set of numbers
Least(S) == CHOOSE x \in S : \A y \in S : x <= y

\* the fewest pieces of 1..max characters t can be cut into, in order, when any
\* number of newlines right after a cut may be dropped; with atEnd the newlines
\* after the last piece may be dropped too, as split_message drops them
FewestPieces(t, max, atEnd) ==
    LET n == Len(t)
        StartsAfter(i) ==
            {p \in (i + 1)..n :
                \E k \in 1..Min(max, n - i) :
                    /\ i + k <= p
                    /\ \A q \in (i + k + 1)..p : t[q] = NL
                    /\ (p = n /\ i + k < p) => atEnd}
        f[d \in 0..n] ==
            LET i == n - d
            IN  IF d = 0 THEN 0 ELSE 1 + Least({f[n - p] : p \in StartsAfter(i)})
    IN  f[n]

Fewest(t, max) == FewestPieces(t, max, TRUE)

\* C11 as stated: no split of the text into pieces of at most max_length, with
\* newlines dropped only between two pieces, has fewer pieces than the result.
C11_Original ==
    spc = "done" => Len(chunks) <= FewestPieces(split_text, split_max, FALSE)

\* C11 (amended): the result has the fewest pieces possible when every piece
\* but the last is max_length long; in general it has at least that many, and
\* every piece but the last is at least min(max_length, max_length // 2 + 2) long.
C11_FewestWhenHardCuts ==
    spc = "done" =>
        /\ (\A i \in 1..(Len(chunks) - 1) : Len(chunks[i]) = split_max) =>
                Len(chunks) = Fewest(split_text, split_max)
        /\ (\E i \in 1..(Len(chunks) - 1) : Len(chunks[i]) # split_max) =>
                Len(chunks) >= Fewest(split_text, split_max)
        /\ \A i \in 1..(Len(chunks) - 1) :
                Len(chunks[i]) >= Min(split_max, split_max \div 2 + 2)

\* hard cuts only, one of them followed by a newline that is dropped
C11_Witness ==
    /\ spc = "done"
    /\ split_max = 3
    /\ split_text = <<"a", "a", "a", NL, "a", "a", "a", "a">>
    /\ chunks = << <<"a", "a", "a">>, <<"a", "a", "a">>, <<"a">> >>

\* the greatest element of a non-empty set of numbers
Greatest(S) == CHOOSE x \in S : \A y \in S : y <= x

\* t[a..b] holds newlines only
NewlinesOnly(t, a, b) == \A q \in a..b : t[q] = NL

\* C12: while more than max_length characters remain, the pass cuts just after
\* the last newline of the first max_length characters when the 0-based index of
\* that newline is greater than max_length // 2, and at max_length otherwise;
\* the remainder loses its leading newlines and nothing else, so no piece after
\* the first begins with a newline.
C12_CutPlacement ==
    /\ [](\A i \in 2..Len(chunks) : chunks[i][1] # NL)
    /\ [][(spc = "loop" /\ Len(rest) > split_max) =>
            LET at == {p \in 1..split_max : rest[p] = NL}
                cut == IF at # {} /\ Greatest(at) - 1 > split_max \div 2
                       THEN Greatest(at) ELSE split_max
            IN  /\ chunks' = Append(chunks, SubSeq(rest, 1, cut))
                /\ rest' = <<>> \/ rest'[1] # NL
                /\ \E k \in 0..(Len(rest) - cut) :
                        /\ NewlinesOnly(rest, cut + 1, cut + k)
                        /\ rest' = SubSeq(rest, cut + k + 1, Len(rest))]_vars

\* a cut after a newline past the midpoint, the newline after the cut stripped
C12_Witness ==
    /\ spc = "done"
    /\ split_max = 5
    /\ split_text = <<"a", "a", "a", "a", NL, NL, "a", "a", "a">>
    /\ chunks = << <<"a", "a", "a", "a", NL>>, <<"a", "a", "a">> >>

\* the positions of t at which the first k pieces of ps can end when they lie in
\* t in order, with newlines only between one piece and the next
RECURSIVE EndsOf(_, _, _)
EndsOf(ps, t, k) ==
    IF k = 0 THEN {0}
    ELSE UNION {{s + Len(ps[k]) :
                    s \in {s \in b..(Len(t) - Len(ps[k])) :
                            /\ k = 1 => s = 0
                            /\ NewlinesOnly(t, b + 1, s)
                            /\ SubSeq(t, s + 1, s + Len(ps[k])) = ps[k]}} :
                b \in EndsOf(ps, t, k - 1)}

\* the characters of t that are not newlines, in order
WithoutNewlines(t) == SelectSeq(t, LAMBDA ch : ch # NL)

RECURSIVE Concat(_)
Concat(ps) == IF ps = <<>> THEN <<>> ELSE Head(ps) \o Concat(Tail(ps))

\* C17 as stated: the text is piece1 + nl1 + piece2 + ... + pieceK, ending with
\* the last piece, every nl a run of newlines.
C17_Original ==
    spc = "done" => Len(split_text) \in EndsOf(chunks, split_text, Len(chunks))

\* C17 (amended): the text is piece1 + nl1 + piece2 + ... + pieceK + nlK, every nl
\* a possibly empty run of newlines, and nlK is empty unless the text is longer
\* than max_length; the pieces without their newlines, concatenated, are the text
\* without its newlines.
C17_OnlyNewlinesLost ==
    spc = "done" =>
        /\ \E e \in EndsOf(chunks, split_text, Len(chunks)) :
                /\ NewlinesOnly(split_text, e + 1, Len(split_text))
                /\ Len(split_text) <= split_max => e = Len(split_text)
        /\ WithoutNewlines(Concat(chunks)) = WithoutNewlines(split_text)

\* newlines dropped between two pieces and after the last one
C17_Witness ==
    /\ spc = "done"
    /\ split_max = 2
    /\ split_text = <<"a", "a", NL, NL, "a", "a", NL>>
    /\ chunks = << <<"a", "a">>, <<"a", "a">> >>

\* the entries of a catalog, as a set
EntriesOf(prompts_data) ==
    {prompts_data.prompts[i] : i \in 1..Len(prompts_data.prompts)}

\* what the fallback chain gives for a resolved key: the system prompt of the
\* entry with that key, else that of the entry keyed "assistant", else the
\* hard-coded string, which also stands in for an entry without a system prompt
ChainFrom(prompts_data, resolved) ==
    LET entries == EntriesOf(prompts_data)
        Text(e) == IF e.system_prompt = None THEN FallbackPrompt ELSE e.system_prompt
    IN  IF \E e \in entries : e.key = resolved
        THEN Text(CHOOSE e \in entries : e.key = resolved)
        ELSE IF \E e \in entries : e.key = "assistant"
        THEN Text(CHOOSE e \in entries : e.key = "assistant")
        ELSE FallbackPrompt

\* C13 as stated: only a null mode is resolved to the catalog default.
C13_Original ==
    ret.op = "get_system_prompt" =>
        LET prompts_data == ret.arg.prompts_data
            mode_key == ret.arg.mode_key
        IN  ret.value = ChainFrom(prompts_data,
                IF mode_key = None THEN DefaultOf(prompts_data) ELSE mode_key)

\* C13 (amended): get_system_prompt always returns a string and follows the
\* fallback chain: a mode that is null or the empty string is resolved to the
\* catalog default, any other mode to itself; the result is the system prompt of
\* the resolved entry, else that of the entry keyed "assistant", else the
\* hard-coded fallback string (so for every mode on an empty catalog).
C13_FallbackChain ==
    ret.op = "get_system_prompt" =>
        LET prompts_data == ret.arg.prompts_data
            mode_key == ret.arg.mode_key
        IN  /\ ret.value \in SystemPrompts \cup {FallbackPrompt}
            /\ ret.value = ChainFrom(prompts_data,
                    IF mode_key \in {None, ""} THEN DefaultOf(prompts_data) ELSE mode_key)
            /\ prompts_data.prompts = <<>> => ret.value = FallbackPrompt

\* a mode that is no key of the catalog gets the prompt of the "assistant" entry
C13_Witness ==
    /\ ret.op = "get_system_prompt"
    /\ ret.arg.mode_key = "ghost"
    /\ ret.arg.prompts_data.default_prompt = "developer"
    /\ ret.arg.prompts_data.prompts =
            << [key |-> "developer", system_prompt |-> "T"],
               [key |-> "assistant", system_prompt |-> "S"] >>
    /\ ret.value = "S"

\* C14 as stated: after load_prompts the default is a key of prompts; a
\* configured default that is a key is kept, any other is replaced by the first key.
C14_Original ==
    ret.op = "load_prompts" =>
        LET data == ret.arg
            keys == {data.prompts[i].key : i \in 1..Len(data.prompts)}
        IN  /\ ret.value.default_prompt \in keys
            /\ IF data.default_prompt # None /\ data.default_prompt \in keys
               THEN ret.value.default_prompt = data.default_prompt
               ELSE ret.value.default_prompt = data.prompts[1].key

\* C14 (amended): load_prompts keeps the entries; the default it gives is a key
\* of a non-empty prompts: the configured default, or "assistant" when none is
\* configured, is kept when it is a key and replaced by the first key otherwise;
\* for an empty prompts the default is "assistant", which is no key.
C14_DefaultIsKey ==
    ret.op = "load_prompts" =>
        LET data == ret.arg
            keys == {data.prompts[i].key : i \in 1..Len(data.prompts)}
            configured == IF data.default_prompt = None THEN "assistant"
                          ELSE data.default_prompt
        IN  /\ ret.value.prompts = data.prompts
            /\ IF data.prompts = <<>> THEN ret.value.default_prompt = "assistant"
               ELSE /\ ret.value.default_prompt \in keys
                    /\ ret.value.default_prompt =
                            (IF configured \in keys THEN configured ELSE data.prompts[1].key)

\* a configured default that is no key is replaced by the first key in the document
C14_Witness ==
    /\ ret.op = "load_prompts"
    /\ ret.arg.default_prompt = "ghost"
    /\ Len(ret.arg.prompts) = 2
    /\ ret.arg.prompts[1].key = "writer"
    /\ ret.arg.prompts[2].key = "assistant"
    /\ ret.value.default_prompt = "writer"

\* C15: get_prompts_data reads prompts.json at most once between the start and
\* the first reload_prompts and never after a reload; what it returns, for any
\* chat, is the catalog of the document as it stood at the last read, whatever
\* the document holds now; reload_prompts returns the catalog of the document as
\* it stands, and the calls after it return that catalog.
C15_LoadedOnceUntilReload ==
    /\ last_read.reads <= 1
    /\ last_read.reloaded => last_read.reads = 0
    /\ prompts_cache # <<>> =>
            /\ last_read.doc # <<>>
            /\ prompts_cache[1] = load_prompts(last_read.doc[1])
    /\ ret.op = "get_prompts_data" => ret.value = load_prompts(last_read.doc[1])
    /\ ret.op = "reload_prompts" =>
            /\ last_read.doc = <<prompts_file>>
            /\ ret.value = load_prompts(prompts_file)

\* after a reload the document was rewritten, and a lookup for the second chat
\* still returned the catalog of the reload, which differs from the document's
C15_Witness ==
    /\ ret.op = "get_prompts_data"
    /\ ret.chat = 2
    /\ last_read.reloaded
    /\ last_read.doc # <<prompts_file>>
    /\ last_read.doc # <<prompts_json>>
    /\ ret.value # load_prompts(prompts_file)

RECURSIVE WithUserMessages(_, _, _)
WithUserMessages(data, key, texts) ==
    IF texts = <<>> THEN data
    ELSE WithUserMessages(WithUserMessage(data, key, Head(texts)), key, Tail(texts))

RECURSIVE WithAssistantMessages(_, _, _)
WithAssistantMessages(data, key, texts) ==
    IF texts = <<>> THEN data
    ELSE WithAssistantMessages(WithAssistantMessage(data, key, Head(texts)), key, Tail(texts))

\* the store of a process that has served chat c only: c's user messages, replies
\* and token counts applied to an empty store
RunAlone(c) ==
    LET key == _chat_key(c)
        appended == WithAssistantMessages(WithUserMessages(EmptyDoc, key, userHist[c]),
                                          key, asstHist[c])
    IN  IF sumIn[c] = 0 /\ sumOut[c] = 0 THEN appended
        ELSE WithTokens(appended, key, sumIn[c], sumOut[c])

\* the entry of key in data, <<>> when there is none
EntryOrNothing(data, key) == IF key \in DOMAIN data THEN <<data[key]>> ELSE <<>>

\* C16: however the text handlers of the two chats interleave at their awaits,
\* each chat's entry, in memory and in memory.json, is the one a process serving
\* that chat alone would hold, at every moment and so when all handlers have
\* finished; and a step of one chat's handler leaves the entry of the other chat
\* as it was, in memory and in the file.
C16_ChatsAreIsolated ==
    /\ [](\A c \in ChatIds :
            /\ EntryOrNothing(_get_memory_data, _chat_key(c))
                    = EntryOrNothing(RunAlone(c), _chat_key(c))
            /\ EntryOrNothing(file, _chat_key(c))
                    = EntryOrNothing(RunAlone(c), _chat_key(c)))
    /\ [][\A c \in ChatIds :
            pc'[c] = pc[c] =>
                /\ EntryOrNothing(cache', _chat_key(c)) = EntryOrNothing(cache, _chat_key(c))
                /\ EntryOrNothing(file', _chat_key(c)) = EntryOrNothing(file, _chat_key(c))]_vars

\* the handler of chat 1 has stored the reply to its second request while the
\* handler of chat 2 is suspended in its second request, its message and counts stored
C16_Witness ==
    /\ ret.op = "append_assistant_message"
    /\ ret.chat = 1
    /\ pc[1] = "idle"
    /\ pc[2] = "stopping"
    /\ turn[1] = 2
    /\ req[2].text = <<"u", 2>>
    /\ Stored(1).user_messages = << <<"u", 1>>, <<"u", 2>> >>
    /\ Stored(1).assistant_messages = << <<"a", 2>> >>
    /\ Stored(2).user_messages = << <<"u", 1>>, <<"u", 2>> >>
    /\ Stored(2).assistant_messages = << <<"a", 1>> >>
    /\ Stored(1).input_tokens = 1
    /\ Stored(2).output_tokens = 1
    /\ file = cache

====
